---- MODULE Spec2Model ----
(***************************************************************************)
(* A model of crop.py ("Ball detection using GMM in RGB color space"):     *)
(* the script lists train_images, and for every file reads it, shows it,   *)
(* lets the operator draw one polygon (RoiPoly), rasterizes the polygon    *)
(* into a boolean mask, reads the file again, stacks the masked pixels     *)
(* under the table `points`, and after the loop writes ball.csv.           *)
(*                                                                         *)
(* Arrays are records [shape, data] as numpy holds them: an image of       *)
(* shape <<h, w, c>> has data[r][col] = the pixel's channel vector, an     *)
(* image of shape <<h, w>> (grayscale) has data[r][col] = one value, a     *)
(* table of shape <<n, c>> has data = its n rows.  Indices are 1-based.    *)
(* Polygon vertices are in half-pixel units: the centre of pixel           *)
(* (row r, column col) is the point <<2*(col-1), 2*(r-1)>>.                *)
(***************************************************************************)
EXTENDS Integers, Sequences, FiniteSets, TLC

\* The longest directory listing explored.
MaxFiles == 2

\* The column count of the table created on line 9, np.empty((0,3)).
InitCols == 3

VARIABLES
  train_images,  \* the input directory: [exists, entries]
  ball_csv,      \* the output file: [exists, lines]
  ball0,         \* history: ball_csv as it was before the run
  pc,            \* the statement the script is at
  err,           \* the uncaught exception, [kind, line]
  listing,       \* the value of os.listdir('train_images')
  idx,           \* the position of the for loop in listing
  filename,      \* lines 10-11: the path of the file being processed
  image,         \* line 12
  figure,        \* the array plt.imshow last drew
  my_roi,        \* line 15: the vertices the operator placed, [x, y]
  mask,          \* line 16
  img,           \* line 17
  points,        \* lines 9 and 18
  writes,        \* history: the number of np.savetxt calls
  log,           \* history: per stacked image, [i, file, roi, mask]
  events         \* history: the statements executed, [op, i]

vars == <<train_images, ball_csv, ball0, pc, err, listing, idx, filename, image,
          figure, my_roi, mask, img, points, writes, log, events>>

----------------------------------------------------------------------------
(* The files a train_images directory may hold. *)

FileNames == {"A.png", "B.png", "C.png", "alpha.png", "gray.png", "corrupt.png"}

\* What each file decodes to: its shape, and the value its first pixel's first
\* channel starts from (every pixel vector of every file is distinct).
FileContent(name) ==
  CASE name = "A.png"       -> [ok |-> TRUE,  shape |-> <<4, 4, 3>>, base |-> 0]
    [] name = "B.png"       -> [ok |-> TRUE,  shape |-> <<4, 4, 3>>, base |-> 200]
    [] name = "C.png"       -> [ok |-> TRUE,  shape |-> <<2, 3, 3>>, base |-> 400]
    [] name = "alpha.png"   -> [ok |-> TRUE,  shape |-> <<2, 2, 4>>, base |-> 600]
    [] name = "gray.png"    -> [ok |-> TRUE,  shape |-> <<2, 2>>,    base |-> 800]
    [] name = "corrupt.png" -> [ok |-> FALSE, shape |-> <<>>,        base |-> 0]

PixelValue(base, w, r, col, k) == base + 10 * ((r - 1) * w + (col - 1)) + k

\* Line 11: 'train_images/' + filename, held as <<directory, name>>.
Path(name) == <<"train_images", name>>

\* plt.imread succeeds on a decodable file ...
Decodable(path) == FileContent(path[2]).ok

\* ... and returns an (h, w, c) array, or an (h, w) array for a grayscale file.
Imread(path) ==
  LET f == FileContent(path[2])
      h == f.shape[1]
      w == f.shape[2]
  IN  [shape |-> f.shape,
       data  |-> [r \in 1..h |-> [col \in 1..w |->
                    IF Len(f.shape) = 3
                    THEN [k \in 1..f.shape[3] |-> PixelValue(f.base, w, r, col, k)]
                    ELSE PixelValue(f.base, w, r, col, 1)]]]

\* A name not yet bound to an array.
None == [shape |-> <<>>, data |-> <<>>]

NoRoi == [x |-> <<>>, y |-> <<>>]

NoError == [kind |-> "none", line |-> 0]

\* The injective sequences over S of length n: a directory holds a name once,
\* and os.listdir returns the names in arbitrary order.
RECURSIVE Listings(_, _)
Listings(S, n) ==
  IF n = 0 THEN {<<>>}
  ELSE {Append(s, f) : s \in Listings(S, n - 1), f \in S}

Injective(s) == \A i, j \in 1..Len(s) : s[i] = s[j] => i = j

Directories ==
  UNION {{s \in Listings(FileNames, n) : Injective(s)} : n \in 0..MaxFiles}

\* ball.csv before the run: absent, or left by an earlier run.
Absent == [exists |-> FALSE, lines |-> <<>>]

Stale == [exists |-> TRUE, lines |-> << <<7, 7, 7>> >>]

----------------------------------------------------------------------------
(* Polygon Capture and the Mask Rasterizer: RoiPoly and RoiPoly.get_mask. *)

\* The polygons the operator draws, as the vertex lists RoiPoly keeps.
TopLeft   == [x |-> <<-1, 3, 3, -1>>,    y |-> <<-1, -1, 3, 3>>]
Triangle  == [x |-> <<-1, 5, -1>>,       y |-> <<-1, -1, 3>>]
Whole     == [x |-> <<-1, 9, 9, -1>>,    y |-> <<-1, -1, 9, 9>>]
Outside   == [x |-> <<11, 15, 15, 11>>,  y |-> <<11, 11, 15, 15>>]
Collinear == [x |-> <<1, 5, 3>>,         y |-> <<1, 1, 1>>]
TwoPoint  == [x |-> <<-1, 5>>,           y |-> <<-1, 3>>]

Polygons == {TopLeft, Triangle, Whole, Outside, Collinear, TwoPoint}

Reverse(s) == [i \in 1..Len(s) |-> s[Len(s) + 1 - i]]

\* get_mask: poly_verts = [(x[0], y[0])] + list(zip(reversed(x), reversed(y)))
PolyVerts(roi) ==
  <<<<roi.x[1], roi.y[1]>>>> \o
  [i \in 1..Len(roi.x) |-> <<Reverse(roi.x)[i], Reverse(roi.y)[i]>>]

\* Whether the ray from p towards +x crosses the edge from a to b.
Crossing(p, a, b) ==
  /\ (a[2] > p[2]) # (b[2] > p[2])
  /\ IF b[2] > a[2]
     THEN (p[1] - a[1]) * (b[2] - a[2]) < (p[2] - a[2]) * (b[1] - a[1])
     ELSE (p[1] - a[1]) * (b[2] - a[2]) > (p[2] - a[2]) * (b[1] - a[1])

\* Path.contains_points for one point: the closed path's crossing number is odd.
ContainsPoint(verts, p) ==
  LET n == Len(verts)
  IN  Cardinality({i \in 1..n : Crossing(p, verts[i], verts[(i % n) + 1])}) % 2 = 1

\* ndarray.reshape((rows, cols)) of a flat vector, C order.
Reshape(flat, rows, cols) ==
  [shape |-> <<rows, cols>>,
   data  |-> [r \in 1..rows |-> [col \in 1..cols |-> flat[(r - 1) * cols + col]]]]

\* image[:, :, 0] needs three axes ...
CanSlice(a) == Len(a.shape) = 3

\* ... and is the (h, w) array of the first channel.
Slice0(a) ==
  [shape |-> <<a.shape[1], a.shape[2]>>,
   data  |-> [r \in 1..a.shape[1] |-> [col \in 1..a.shape[2] |-> a.data[r][col][1]]]]

\* get_mask reads self.x[0]: it needs at least one vertex.
HasVertex(roi) == Len(roi.x) > 0

\* The flat vector contains_points returns for the meshgrid of the pixel
\* centres, x running fastest.
ContainsPoints(roi, ny, nx) ==
  [i \in 1..(ny * nx) |->
     ContainsPoint(PolyVerts(roi), <<2 * ((i - 1) % nx), 2 * ((i - 1) \div nx)>>)]

\* get_mask with the axes of the reshape swapped: reshape((nx, ny)).
GetMaskTransposed(roi, a) ==
  Reshape(ContainsPoints(roi, a.shape[1], a.shape[2]), a.shape[2], a.shape[1])

\* RoiPoly.get_mask(a): ny, nx = np.shape(a); ...reshape((ny, nx)).
GetMask(roi, a) ==
  Reshape(ContainsPoints(roi, a.shape[1], a.shape[2]), a.shape[1], a.shape[2])

----------------------------------------------------------------------------
(* The Sample Extractor img[mask] and the Accumulator np.vstack. *)

\* A boolean index must have the shape of the axes it indexes.
CanIndex(a, m) ==
  /\ Len(a.shape) >= 2
  /\ m.shape = <<a.shape[1], a.shape[2]>>

\* The cells selected among the first n cells of a, in C (row-major) order.
RECURSIVE Select(_, _, _)
Select(a, m, n) ==
  IF n = 0 THEN <<>>
  ELSE LET w   == a.shape[2]
           r   == ((n - 1) \div w) + 1
           col == ((n - 1) % w) + 1
       IN  IF m.data[r][col]
           THEN Append(Select(a, m, n - 1), a.data[r][col])
           ELSE Select(a, m, n - 1)

\* The cells a negated mask selects.
RECURSIVE SelectInverted(_, _, _)
SelectInverted(a, m, n) ==
  IF n = 0 THEN <<>>
  ELSE LET w   == a.shape[2]
           r   == ((n - 1) \div w) + 1
           col == ((n - 1) % w) + 1
       IN  IF ~m.data[r][col]
           THEN Append(SelectInverted(a, m, n - 1), a.data[r][col])
           ELSE SelectInverted(a, m, n - 1)

\* a[~m]: the index with the mask negated.
BoolIndexInverted(a, m) ==
  LET rows == SelectInverted(a, m, a.shape[1] * a.shape[2])
  IN  [shape |-> <<Len(rows), a.shape[3]>>, data |-> rows]

\* a[m] for an (h, w, c) array a and an (h, w) boolean m: a (k, c) table.
BoolIndex(a, m) ==
  LET rows == Select(a, m, a.shape[1] * a.shape[2])
  IN  [shape |-> <<Len(rows), a.shape[3]>>, data |-> rows]

\* A stacking that accepts any column count (rows kept in a list).
CanVStackUnchecked(a, b) == TRUE

\* A stacking that also rejects a table of no rows.
CanVStackNonEmpty(a, b) == a.shape[2] = b.shape[2] /\ b.shape[1] > 0

\* np.vstack raises ValueError unless the column counts agree, also when one
\* of the tables has no rows.
CanVStack(a, b) == a.shape[2] = b.shape[2]

\* np.vstack((b, a)): the operands swapped.
VStackPrepend(a, b) ==
  [shape |-> <<a.shape[1] + b.shape[1], a.shape[2]>>, data |-> b.data \o a.data]

\* points = img[mask]: the new rows replace the table.
VStackReplace(a, b) ==
  [shape |-> <<b.shape[1], a.shape[2]>>, data |-> b.data]

\* np.vstack((a, b)): the rows of a, then the rows of b.
VStack(a, b) ==
  [shape |-> <<a.shape[1] + b.shape[1], a.shape[2]>>, data |-> a.data \o b.data]

\* np.savetxt(..., delimiter=','): one line per row, one field per column, each
\* the value's '%.18e' rendering (held here as the value it denotes).  The
\* shape is not written: a table of no rows gives a file of no lines.
Savetxt(a) ==
  [exists |-> TRUE,
   lines  |-> [i \in 1..a.shape[1] |-> [k \in 1..a.shape[2] |-> a.data[i][k]]]]

----------------------------------------------------------------------------
(* The script, statement by statement. *)

Init ==
  /\ train_images \in
       {[exists |-> FALSE, entries |-> <<>>]} \cup
       {[exists |-> TRUE, entries |-> d] : d \in Directories}
  /\ ball_csv \in {Absent, Stale}
  /\ ball0 = ball_csv
  /\ pc = "listdir"
  /\ err = NoError
  /\ listing = <<>>
  /\ idx = 0
  /\ filename = <<>>
  /\ image = None
  /\ figure = None
  /\ my_roi = NoRoi
  /\ mask = None
  /\ img = None
  /\ points = [shape |-> <<0, InitCols>>, data |-> <<>>]   \* line 9
  /\ writes = 0
  /\ log = <<>>
  /\ events = <<>>

\* The loop wrapped in try/finally: an exception still reaches the write.
RaiseAndSave(kind, line) ==
  /\ pc' = "savetxt"
  /\ err' = [kind |-> kind, line |-> line]

\* Nothing catches an exception: the interpreter exits at the raising line.
Raise(kind, line) ==
  /\ pc' = "failed"
  /\ err' = [kind |-> kind, line |-> line]

\* The write indented into the loop body: the loop is left after one image.
ExhaustedAfterFirst(i, names) == i >= 1 \/ i >= Len(names)

\* The for loop ends when the listing holds no further name.
Exhausted(i, names) == i >= Len(names)

\* A loop that steps over every other name.
NextIndexSkipping(i) == i + 2

\* The for loop takes the names one by one.
NextIndex(i) == i + 1

\* History: statement op ran for the image at position i.
Did(op, i) == events' = Append(events, [op |-> op, i |-> i])

\* Line 10: os.listdir('train_images'), evaluated once.
ListDir ==
  /\ pc = "listdir"
  /\ IF train_images.exists
     THEN /\ listing' = train_images.entries
          /\ pc' = "for"
          /\ err' = err
     ELSE /\ Raise("FileNotFoundError", 10)
          /\ listing' = listing
  /\ Did("listdir", 0)
  /\ UNCHANGED <<train_images, ball_csv, ball0, idx, filename, image, figure,
                 my_roi, mask, img, points, writes, log>>

\* Lines 10-11: the next name of the listing, or the end of the loop.
ForNext ==
  /\ pc = "for"
  /\ IF Exhausted(idx, listing) \/ NextIndex(idx) > Len(listing)  \* no name left
     THEN /\ pc' = "savetxt"
          /\ UNCHANGED <<idx, filename, events>>
     ELSE /\ idx' = NextIndex(idx)
          /\ filename' = Path(listing[idx'])
          /\ pc' = "imread"
          /\ Did("for", idx')
  /\ UNCHANGED <<train_images, ball_csv, ball0, err, listing, image, figure,
                 my_roi, mask, img, points, writes, log>>

\* Line 12: image = plt.imread(filename).
ReadImage ==
  /\ pc = "imread"
  /\ IF Decodable(filename)
     THEN /\ image' = Imread(filename)
          /\ pc' = "imshow"
          /\ err' = err
     ELSE /\ Raise("DecodeError", 12)
          /\ image' = image
  /\ Did("imread", idx)
  /\ UNCHANGED <<train_images, ball_csv, ball0, listing, idx, filename, figure,
                 my_roi, mask, img, points, writes, log>>

\* Line 14: plt.imshow(image).
ShowImage ==
  /\ pc = "imshow"
  /\ figure' = image
  /\ pc' = "RoiPoly"
  /\ Did("imshow", idx)
  /\ UNCHANGED <<train_images, ball_csv, ball0, err, listing, idx, filename,
                 image, my_roi, mask, img, points, writes, log>>

\* Line 15: RoiPoly(color='r') blocks until the operator has drawn a polygon,
\* or has closed the window without placing a vertex.
DrawRoi ==
  /\ pc = "RoiPoly"
  /\ \E roi \in Polygons \cup {NoRoi} : my_roi' = roi
  /\ pc' = "get_mask"
  /\ Did("RoiPoly", idx)
  /\ UNCHANGED <<train_images, ball_csv, ball0, err, listing, idx, filename,
                 image, figure, mask, img, points, writes, log>>

\* Line 16: mask = my_roi.get_mask(image[:, :, 0]).
MakeMask ==
  /\ pc = "get_mask"
  /\ IF CanSlice(image) /\ HasVertex(my_roi)
     THEN /\ mask' = GetMask(my_roi, Slice0(image))
          /\ pc' = "imread2"
          /\ err' = err
     ELSE /\ Raise("IndexError", 16)
          /\ mask' = mask
  /\ Did("get_mask", idx)
  /\ UNCHANGED <<train_images, ball_csv, ball0, listing, idx, filename, image,
                 figure, my_roi, img, points, writes, log>>

\* Line 17: img = plt.imread(filename), the same file read again.
RereadImage ==
  /\ pc = "imread2"
  /\ IF Decodable(filename)
     THEN /\ img' = Imread(filename)
          /\ pc' = "vstack"
          /\ err' = err
     ELSE /\ Raise("DecodeError", 17)
          /\ img' = img
  /\ Did("imread2", idx)
  /\ UNCHANGED <<train_images, ball_csv, ball0, listing, idx, filename, image,
                 figure, my_roi, mask, points, writes, log>>

\* Line 18: points = np.vstack((points, img[mask])).
StackPoints ==
  /\ pc = "vstack"
  /\ IF ~CanIndex(img, mask)
     THEN /\ Raise("IndexError", 18)
          /\ UNCHANGED <<points, log>>
     ELSE IF ~CanVStack(points, BoolIndex(img, mask))
     THEN /\ Raise("ValueError", 18)
          /\ UNCHANGED <<points, log>>
     ELSE /\ points' = VStack(points, BoolIndex(img, mask))
          /\ log' = Append(log, [i |-> idx, file |-> filename, roi |-> my_roi,
                                   mask |-> mask])
          /\ pc' = "for"
          /\ err' = err
  /\ Did("vstack", idx)
  /\ UNCHANGED <<train_images, ball_csv, ball0, listing, idx, filename, image,
                 figure, my_roi, mask, img, writes>>

\* Line 20 guarded by `if len(points)`: an empty table is not written.
SaveTxtSkipEmpty ==
  /\ pc = "savetxt"
  /\ IF points.shape[1] > 0
     THEN ball_csv' = Savetxt(points) /\ writes' = writes + 1
     ELSE UNCHANGED <<ball_csv, writes>>
  /\ pc' = "done"
  /\ Did("savetxt", idx)
  /\ UNCHANGED <<train_images, ball0, err, listing, idx, filename, image, figure,
                 my_roi, mask, img, points, log>>

\* Line 20: np.savetxt('ball.csv', points, delimiter=','), then the script ends.
SaveTxt ==
  /\ pc = "savetxt"
  /\ ball_csv' = Savetxt(points)
  /\ writes' = writes + 1
  /\ pc' = "done"
  /\ Did("savetxt", idx)
  /\ UNCHANGED <<train_images, ball0, err, listing, idx, filename, image, figure,
                 my_roi, mask, img, points, log>>

Next ==
  \/ ListDir
  \/ ForNext
  \/ ReadImage
  \/ ShowImage
  \/ DrawRoi
  \/ MakeMask
  \/ RereadImage
  \/ StackPoints
  \/ SaveTxt

Spec == Init /\ [][Next]_vars

\* The script runs on by itself everywhere but in RoiPoly, where it waits for
\* the operator, who may never finish.
Program ==
  \/ ListDir
  \/ ForNext
  \/ ReadImage
  \/ ShowImage
  \/ MakeMask
  \/ RereadImage
  \/ StackPoints
  \/ SaveTxt

FairSpec == Spec /\ WF_vars(Program)

----------------------------------------------------------------------------
(* What the properties speak of. *)

\* The cells of a mask that are true.
TrueCells(m) ==
  {p \in (1..m.shape[1]) \X (1..m.shape[2]) : m.data[p[1]][p[2]]}

TrueCount(m) == Cardinality(TrueCells(m))

AllFalse(m) == TrueCells(m) = {}

\* p comes before q in the row-major scan of an image.
Before(p, q) == p[1] < q[1] \/ (p[1] = q[1] /\ p[2] < q[2])

\* The place of a true cell among the true cells of a mask, in scan order.
Rank(m, p) == Cardinality({q \in TrueCells(m) : Before(q, p)}) + 1

\* The number of rows the images stacked before the j-th one account for.
RECURSIVE Offset(_)
Offset(j) == IF j <= 1 THEN 0 ELSE Offset(j - 1) + TrueCount(log[j - 1].mask)

\* Twice the signed area the vertices of a polygon enclose (shoelace formula).
RECURSIVE Shoelace(_, _)
Shoelace(roi, i) ==
  IF i = 0 THEN 0
  ELSE LET n == Len(roi.x)
           j == (i % n) + 1
       IN  Shoelace(roi, i - 1) + roi.x[i] * roi.y[j] - roi.x[j] * roi.y[i]

Degenerate(roi) == HasVertex(roi) /\ Shoelace(roi, Len(roi.x)) = 0

\* The channel count of a file's image; 0 when it has no channel axis.
Channels(name) ==
  IF Len(FileContent(name).shape) = 3 THEN FileContent(name).shape[3] ELSE 0

IsPrefix(s, t) == Len(s) <= Len(t) /\ \A i \in 1..Len(s) : s[i] = t[i]

Range(s) == {s[i] : i \in 1..Len(s)}

----------------------------------------------------------------------------
(* The properties. *)

\* C1: after the loop has stacked the first N images, the table has as many
\* rows as the N masks have true cells together, and the rows are grouped by
\* image in processing order, each group in row-major scan order of its mask.
C1_RowCountAndOrder ==
  LET N == Len(log)
  IN  /\ \A j \in 1..N : log[j].i = j /\ log[j].file = Path(listing[j])
      /\ points.shape[1] = Offset(N + 1)
      /\ Len(points.data) = Offset(N + 1)
      /\ \A j \in 1..N :
           LET m    == log[j].mask
               from == Offset(j)
               px   == Imread(log[j].file).data
           IN  \A p \in TrueCells(m) :
                 points.data[from + Rank(m, p)] = px[p[1]][p[2]]

\* C1's case: image A with its top-left 2x2 block masked, then image B with
\* nothing masked, written as the four pixels of the block in scan order.
C1_Witness ==
  /\ pc = "done"
  /\ listing = <<"A.png", "B.png">>
  /\ TrueCells(log[1].mask) = {<<1, 1>>, <<1, 2>>, <<2, 1>>, <<2, 2>>}
  /\ AllFalse(log[2].mask)
  /\ ball_csv.lines = <<Imread(Path("A.png")).data[1][1], Imread(Path("A.png")).data[1][2],
                        Imread(Path("A.png")).data[2][1], Imread(Path("A.png")).data[2][2]>>

\* C2: the samples taken from an image are one per true cell of the mask, each
\* the image's whole channel vector at that cell; every row of the table is the
\* pixel of a true cell of a stacked image, and no pixel of a false cell is.
C2_SamplesAreMaskedPixels ==
  /\ (pc = "vstack" /\ CanIndex(img, mask)) =>
       LET smp == BoolIndex(img, mask)
       IN  /\ smp.shape = <<TrueCount(mask), img.shape[3]>>
           /\ Len(smp.data) = TrueCount(mask)
           /\ \A p \in TrueCells(mask) :
                /\ smp.data[Rank(mask, p)] = img.data[p[1]][p[2]]
                /\ Len(smp.data[Rank(mask, p)]) = img.shape[3]
  /\ Range(points.data) \subseteq
       UNION {{Imread(log[j].file).data[p[1]][p[2]] : p \in TrueCells(log[j].mask)}
                : j \in 1..Len(log)}
  /\ Range(points.data) \cap
       UNION {{Imread(log[j].file).data[p[1]][p[2]] :
                 p \in ((1..log[j].mask.shape[1]) \X (1..log[j].mask.shape[2]))
                        \ TrueCells(log[j].mask)}
                : j \in 1..Len(log)} = {}

\* C2's case: samples are being taken under a mask that has true and false
\* cells, after an earlier image has contributed rows.
C2_Witness ==
  /\ pc = "vstack"
  /\ points.shape[1] > 0
  /\ TrueCount(mask) > 0
  /\ TrueCount(mask) < mask.shape[1] * mask.shape[2]

\* C3: ball.csv is written at most once, and only once every image of the
\* listing has been processed and stacked; a run that has stopped before that
\* has written nothing.
C3_WriteOnceAfterLoop ==
  /\ writes <= 1
  /\ writes = 1 =>
       /\ pc = "done"
       /\ listing = train_images.entries
       /\ Len(log) = Len(listing)
       /\ \A j \in 1..Len(listing) : log[j].file = Path(listing[j])
  /\ writes = 0 => ball_csv = ball0
  /\ pc = "failed" => writes = 0
  /\ Len(log) < Len(train_images.entries) => writes = 0

\* C3's case: the write has happened, after two images were stacked.
C3_Witness ==
  /\ writes = 1
  /\ Len(listing) >= 2
  /\ Len(log) = Len(listing)

\* C4: the table starts with no rows, and every step leaves its rows as a
\* prefix of the rows after it: rows are only ever added at the end.
C4_AppendOnly ==
  /\ points.shape[1] = 0 /\ points.data = <<>>
  /\ [][/\ IsPrefix(points.data, points'.data)
        /\ points.shape[1] <= points'.shape[1]
        /\ points.shape[2] = points'.shape[2]
        /\ points' # points => pc = "vstack"]_vars

\* C4's case: rows were added under rows that were already there.
C4_Witness ==
  /\ Len(log) >= 2
  /\ TrueCount(log[1].mask) > 0
  /\ TrueCount(log[2].mask) > 0
  /\ points.shape[1] = TrueCount(log[1].mask) + TrueCount(log[2].mask)

\* The decodable images of the listing do not all have the same channel count.
MixedListing ==
  \E i, j \in 1..Len(listing) :
    /\ Decodable(Path(listing[i])) /\ Decodable(Path(listing[j]))
    /\ Channels(listing[i]) # Channels(listing[j])

\* C5 as stated: with images of differing channel counts, the schema mismatch
\* is raised on the second append, that is after exactly one append succeeded.
C5_FailsOnSecondAppend ==
  (err.kind = "ValueError" /\ MixedListing) => Len(log) = 1

\* C5, amended: the schema mismatch is raised by the append of the first image
\* whose channel count is not the table's three columns, whichever append that
\* is (the first one when that image comes first); the table never holds rows
\* of differing lengths, no image of another channel count is ever stacked, and
\* nothing is written in a run that meets one.
C5_FailsOnFirstOddImage ==
  /\ points.shape[2] = InitCols
  /\ \A n \in 1..Len(points.data) : Len(points.data[n]) = InitCols
  /\ \A j \in 1..Len(log) : Channels(log[j].file[2]) = InitCols
  /\ err.kind = "ValueError" =>
       /\ pc = "failed" /\ err.line = 18
       /\ Channels(listing[idx]) # InitCols
       /\ \A i \in 1..(idx - 1) : Channels(listing[i]) = InitCols
       /\ Len(log) = idx - 1
       /\ writes = 0 /\ ball_csv = ball0
  /\ (pc = "vstack" /\ img.shape[3] # InitCols) =>
       ~CanVStack(points, BoolIndex(img, mask))
  /\ writes > 0 => \A i \in 1..Len(listing) : Channels(listing[i]) = InitCols

\* C5's case: a four-channel image met after rows of a three-channel image
\* were stacked, and the run has failed on its append.
C5_Witness ==
  /\ err = [kind |-> "ValueError", line |-> 18]
  /\ Len(log) >= 1
  /\ points.shape[1] > 0
  /\ img.shape[3] = 4

C7_DegenerateNeverFails ==
  ~(/\ pc = "failed" /\ err.line = 18
    /\ Degenerate(my_roi) /\ AllFalse(mask))

\* C7, amended: for an image of three channels, a degenerate polygon gives an
\* all-false mask, an all-false mask selects no sample, and its append leaves
\* the table as it was, raises nothing and goes on to the next image or, after
\* the last one, to the write.
C7_DegenerateIsNoOp ==
  /\ [](/\ (pc \in {"imread2", "vstack"} /\ Degenerate(my_roi)) => AllFalse(mask)
        /\ (pc = "vstack" /\ AllFalse(mask)) => BoolIndex(img, mask).shape[1] = 0
        /\ \A j \in 1..Len(log) :
             Degenerate(log[j].roi) => Offset(j + 1) = Offset(j))
  /\ [][(pc = "vstack" /\ AllFalse(mask) /\ img.shape[3] = InitCols) =>
          /\ points' = points
          /\ err' = NoError
          /\ pc' = "for"]_vars
  /\ [][pc = "for" => pc' \in {"imread", "savetxt"}]_vars

\* C7's case: the first image got a degenerate polygon, the second one did
\* not, and the run has written the second one's rows.
C7_Witness ==
  /\ pc = "done"
  /\ Len(log) >= 2
  /\ Degenerate(log[1].roi)
  /\ TrueCount(log[2].mask) > 0
  /\ Len(ball_csv.lines) = TrueCount(log[2].mask)

\* C8: the mask has the (height, width) of the image it was made for, and of
\* the second read of the file it is applied to; the boolean index on line 18
\* never meets an array of another shape.
C8_MaskShape ==
  /\ pc \in {"imread2", "vstack"} =>
       /\ mask.shape = <<image.shape[1], image.shape[2]>>
       /\ Len(mask.data) = image.shape[1]
       /\ \A r \in 1..Len(mask.data) : Len(mask.data[r]) = image.shape[2]
  /\ pc = "vstack" =>
       /\ mask.shape = <<img.shape[1], img.shape[2]>>
       /\ CanIndex(img, mask)
  /\ \A j \in 1..Len(log) :
       log[j].mask.shape = <<FileContent(log[j].file[2]).shape[1],
                             FileContent(log[j].file[2]).shape[2]>>
  /\ err.kind = "IndexError" => err.line = 16

\* C8's case: the mask of an image that is not square is about to be applied.
C8_Witness ==
  /\ pc = "vstack"
  /\ img.shape[1] # img.shape[2]
  /\ TrueCount(mask) > 0

\* C9: the statements run image by image in listing order: what is done for
\* image i after the polygon capture follows that capture, nothing is done for
\* image i+1 before the rows of image i are stacked, and while the capture of
\* image i is awaited nothing else can run.
C9_OneImageAtATime ==
  /\ \A k \in 1..Len(events) : \A l \in (k + 1)..Len(events) :
       events[k].i <= events[l].i
  /\ \A l \in 1..Len(events) :
       /\ events[l].op \in {"get_mask", "imread2", "vstack"} =>
            \E k \in 1..(l - 1) : events[k] = [op |-> "RoiPoly", i |-> events[l].i]
       /\ (events[l].i > 1 /\ events[l].op # "savetxt") =>
            \E k \in 1..(l - 1) : events[k] = [op |-> "vstack", i |-> events[l].i - 1]
  /\ pc \in {"imread", "imshow", "RoiPoly", "get_mask", "imread2", "vstack"} =>
       /\ idx >= 1 /\ filename = Path(listing[idx])
       /\ Len(log) = idx - 1
  /\ pc = "RoiPoly" => ~ENABLED Program

\* C9's case: the capture for the second image is awaited, the first image's
\* rows being stacked.
C9_Witness ==
  /\ pc = "RoiPoly"
  /\ idx = 2
  /\ Len(log) = 1
  /\ figure = Imread(Path(listing[2]))

====
